---- MODULE Spec2Model ----
(***************************************************************************)
(* A model of the search and sort kernels of grokking_algos:               *)
(*   intro_to_algos : linear_search, iterative_binary_search,              *)
(*                    recursive_binary_search                              *)
(*   selection_sort : selection_sort                                       *)
(*   quicksort      : quick_sort                                           *)
(* Every function is modelled step by step (one action per loop iteration  *)
(* or per call), on inputs drawn from bounded sets.                        *)
(***************************************************************************)
EXTENDS Integers, Sequences, FiniteSets

\* ------------------------------------------------------------------ bounds
\* Longest input sequence.
MaxLen == 4
\* Element values are 1..MaxVal; targets are 0..MaxVal+1, so a target can be
\* below every element, above every element, or between two of them.
MaxVal == 3
\* usize is 64 bits wide on the targets the crate builds for.  The model keeps
\* the wrap-around of unsigned arithmetic at a narrower width, wide enough for
\* every index of a sequence of MaxLen elements.
UsizeBits == 5
\* Longest chain of nested calls the model follows.
MaxDepth == 8

VARIABLES
    build,      \* "debug" (overflow checks on) or "release" (wrapping arithmetic)
    pc,         \* the call of intro_to_algos in progress
    list,       \* the slice searched
    item,       \* the target
    i,          \* linear_search: loop index
    l_res,      \* linear_search: outcome
    low,        \* iterative_binary_search: lower bound
    high,       \* iterative_binary_search: upper bound
    i_res,      \* iterative_binary_search: outcome
    r_low,      \* recursive_binary_search: argument low of the current call
    r_high,     \* recursive_binary_search: argument high of the current call
    r_calls,    \* recursive_binary_search: <<low, high>> of every call of the chain
    r_res,      \* recursive_binary_search: outcome
    reads,      \* calls/iterations so far that indexed into the slice
    sel_pc,     \* selection_sort: position in the function
    sel_input,  \* selection_sort: the slice as it was passed in
    sel_list,   \* selection_sort: the slice, mutated in place
    sel_i,      \* selection_sort: i
    sel_j,      \* selection_sort: j
    current_min,\* selection_sort: current_min
    q_pc,       \* quick_sort: "called" or "returned", for the call followed
    q_input,    \* quick_sort: the argument of the outermost call
    q_list,     \* quick_sort: the argument of the call followed
    q_depth,    \* quick_sort: how many calls are nested around the call followed
    q_out,      \* quick_sort: the Vec the call followed returned
    pass,       \* sorting twice: 1 while the input is sorted, 2 while its output is
    a_fn,       \* quicksort module: which of sum, count, find_max is called
    a_list,     \* sum / count / find_max: the slice passed
    a_index,    \* _find_max: the index argument of the outermost call
    a_res,      \* sum / count / find_max: outcome
    f_pc,       \* factorial: position in the chain of calls
    f_input,    \* factorial: the argument of the outermost call
    f_arg,      \* factorial: i of the call that is running
    f_acc,      \* factorial: the value the last call returned
    f_res,      \* factorial: outcome of the outermost call
    c_pc,       \* simple_recursive_countdown: "called" or "returned"
    c_input,    \* simple_recursive_countdown: the argument of the outermost call
    c_arg,      \* simple_recursive_countdown: i of the call that is running
    c_calls,    \* simple_recursive_countdown: recursive calls made so far
    c_res       \* simple_recursive_countdown: the value returned

searchVars == <<build, pc, list, item, i, l_res, low, high, i_res,
                r_low, r_high, r_calls, r_res, reads>>
selVars == <<sel_pc, sel_input, sel_list, sel_i, sel_j, current_min>>
quickVars == <<q_pc, q_input, q_list, q_depth, q_out>>

sortsVars == <<pass>>
aggVars == <<a_fn, a_list, a_index, a_res>>
factVars == <<f_pc, f_input, f_arg, f_acc, f_res>>
countVars == <<c_pc, c_input, c_arg, c_calls, c_res>>

vars == <<searchVars, selVars, quickVars, sortsVars, aggVars, factVars, countVars>>

\* What each component leaves alone.
notSearchVars == <<selVars, quickVars, sortsVars, aggVars, factVars, countVars>>
notSelVars == <<searchVars, quickVars, sortsVars, aggVars, factVars, countVars>>
notQuickVars == <<searchVars, selVars, sortsVars, aggVars, factVars, countVars>>
notSortVars == <<searchVars, aggVars, factVars, countVars>>
notAggVars == <<searchVars, selVars, quickVars, sortsVars, factVars, countVars>>
notFactVars == <<searchVars, selVars, quickVars, sortsVars, aggVars, countVars>>
notCountVars == <<searchVars, selVars, quickVars, sortsVars, aggVars, factVars>>

\* ----------------------------------------------------------------- values
Vals == 1..MaxVal
Targets == 0..(MaxVal + 1)

RECURSIVE SeqsUpTo(_, _)
SeqsUpTo(S, n) ==
    IF n = 0 THEN {<<>>}
    ELSE LET shorter == SeqsUpTo(S, n - 1)
         IN  shorter \cup {Append(s, x) : s \in {t \in shorter : Len(t) = n - 1}, x \in S}

Range(s) == {s[k] : k \in DOMAIN s}

IsSorted(s) == \A a, b \in DOMAIN s : a < b => s[a] <= s[b]

\* Elements of the sorted slices carry the position they had in the input, so
\* that two elements with equal keys can be told apart; the order of the
\* element type (`<` of Ord / PartialOrd) looks at the key alone.
Tagged(s) == [k \in DOMAIN s |-> [key |-> s[k], pos |-> k - 1]]
Keys(s) == [k \in DOMAIN s |-> s[k].key]
Less(a, b) == a.key < b.key

\* The multiset of the elements of a sequence.
BagOf(s) == [x \in Range(s) |-> Cardinality({k \in DOMAIN s : s[k] = x})]
SameBag(s, t) == BagOf(s) = BagOf(t)
SortedByKey(s) == IsSorted(Keys(s))

\* Option<usize> results, and the two ways a call can fail to produce one.
Some(idx) == [tag |-> "Some", idx |-> idx]
None == [tag |-> "None", idx |-> 0]
Panic == [tag |-> "Panic", idx |-> 0]
Pending == [tag |-> "Pending", idx |-> 0]

\* list[k] of the source (zero-based) is At(list, k).
At(s, k) == s[k + 1]

\* ------------------------------------------------------- usize arithmetic
UsizeMod == 2 ^ UsizeBits

\* a + b and a - b on usize.  With overflow checks on (debug builds) an
\* out-of-range result panics; without them (release builds) it wraps.
AddOverflows(a, b) == a + b >= UsizeMod
SubOverflows(a, b) == b > a
WrappingAdd(a, b) == (a + b) % UsizeMod
WrappingSub(a, b) == (a - b + UsizeMod) % UsizeMod

\* -------------------------------------------------------- linear_search
\* A comparison slip: `*val >= item`.
LinearMatchGe(s, k, x) == At(s, k) >= x

\* `*val == item`
LinearMatch(s, k, x) == At(s, k) = x

\* for (i, val) in list.iter().enumerate(): the iteration that finds a match.
LinearFound ==
    /\ pc = "linear_search"
    /\ i < Len(list)
    /\ LinearMatch(list, i, item)
    /\ l_res' = Some(i)
    /\ reads' = reads + 1
    /\ pc' = "iterative_binary_search"
    /\ UNCHANGED notSearchVars
    /\ UNCHANGED <<build, list, item, i, low, high, i_res, r_low, r_high, r_calls, r_res>>

\* An iteration that finds no match moves to the next element.
LinearNext ==
    /\ pc = "linear_search"
    /\ i < Len(list)
    /\ ~LinearMatch(list, i, item)
    /\ i' = i + 1
    /\ reads' = reads + 1
    /\ UNCHANGED notSearchVars
    /\ UNCHANGED <<build, pc, list, item, l_res, low, high, i_res, r_low, r_high, r_calls, r_res>>

\* The iterator is exhausted: None.
LinearExhausted ==
    /\ pc = "linear_search"
    /\ i >= Len(list)
    /\ l_res' = None
    /\ pc' = "iterative_binary_search"
    /\ UNCHANGED notSearchVars
    /\ UNCHANGED <<build, list, item, i, low, high, i_res, r_low, r_high, r_calls, r_res, reads>>

\* ---------------------------------------------- iterative_binary_search
\* `(low + high) / 2`
Mid(lo, hi) == WrappingAdd(lo, hi) \div 2

\* `high = mid - 1`
IterNewHigh(mid) == WrappingSub(mid, 1)

\* `low = mid + 1`
IterNewLow(mid) == mid + 1

\* A slip in the guard: `while low <= high`.
IterGuardInclusive(lo, hi) == lo <= hi

\* `while low < high`
IterGuard(lo, hi) == lo < hi

\* `low + high` panics on overflow when overflow checks are on.
IterMidPanics == build = "debug" /\ AddOverflows(low, high)

\* The loop guard fails: None.
IterExit ==
    /\ pc = "iterative_binary_search"
    /\ ~IterGuard(low, high)
    /\ i_res' = None
    /\ pc' = "recursive_binary_search"
    /\ UNCHANGED notSearchVars
    /\ UNCHANGED <<build, list, item, i, l_res, low, high, r_low, r_high, r_calls, r_res, reads>>

\* `list[mid]` with mid outside the slice panics (as does an overflowing low + high).
IterIndexPanic ==
    /\ pc = "iterative_binary_search"
    /\ IterGuard(low, high)
    /\ (IterMidPanics \/ Mid(low, high) >= Len(list))
    /\ i_res' = Panic
    /\ pc' = "recursive_binary_search"
    /\ UNCHANGED notSearchVars
    /\ UNCHANGED <<build, list, item, i, l_res, low, high, r_low, r_high, r_calls, r_res, reads>>

\* `if item == list[mid] { return Some(mid) }`
IterFound ==
    /\ pc = "iterative_binary_search"
    /\ IterGuard(low, high)
    /\ ~IterMidPanics
    /\ Mid(low, high) < Len(list)
    /\ item = At(list, Mid(low, high))
    /\ i_res' = Some(Mid(low, high))
    /\ reads' = reads + 1
    /\ pc' = "recursive_binary_search"
    /\ UNCHANGED notSearchVars
    /\ UNCHANGED <<build, list, item, i, l_res, low, high, r_low, r_high, r_calls, r_res>>

\* `else if item < list[mid] { high = mid - 1 }`; without overflow checks
\* 0 - 1 wraps to usize::MAX.
IterLower ==
    /\ pc = "iterative_binary_search"
    /\ IterGuard(low, high)
    /\ ~IterMidPanics
    /\ Mid(low, high) < Len(list)
    /\ item < At(list, Mid(low, high))
    /\ (build = "release" \/ ~SubOverflows(Mid(low, high), 1))
    /\ high' = IterNewHigh(Mid(low, high))
    /\ reads' = reads + 1
    /\ UNCHANGED notSearchVars
    /\ UNCHANGED <<build, pc, list, item, i, l_res, low, i_res, r_low, r_high, r_calls, r_res>>

\* `mid - 1` with mid = 0 and overflow checks on: "attempt to subtract with overflow".
IterLowerPanic ==
    /\ pc = "iterative_binary_search"
    /\ IterGuard(low, high)
    /\ ~IterMidPanics
    /\ Mid(low, high) < Len(list)
    /\ item < At(list, Mid(low, high))
    /\ build = "debug"
    /\ SubOverflows(Mid(low, high), 1)
    /\ i_res' = Panic
    /\ reads' = reads + 1
    /\ pc' = "recursive_binary_search"
    /\ UNCHANGED notSearchVars
    /\ UNCHANGED <<build, list, item, i, l_res, low, high, r_low, r_high, r_calls, r_res>>

\* `else { low = mid + 1 }`
IterUpper ==
    /\ pc = "iterative_binary_search"
    /\ IterGuard(low, high)
    /\ ~IterMidPanics
    /\ Mid(low, high) < Len(list)
    /\ item > At(list, Mid(low, high))
    /\ low' = IterNewLow(Mid(low, high))
    /\ reads' = reads + 1
    /\ UNCHANGED notSearchVars
    /\ UNCHANGED <<build, pc, list, item, i, l_res, high, i_res, r_low, r_high, r_calls, r_res>>

\* ---------------------------------------------- recursive_binary_search
\* `let mid = (low + high) / 2;` of the current call
RecMid == Mid(r_low, r_high)

RecMidPanics == build = "debug" /\ AddOverflows(r_low, r_high)

\* `if list.is_empty() || mid >= list.len() { return None; }`
RecBaseCase(s, mid) == Len(s) = 0 \/ mid >= Len(s)

\* An off-by-one slip: the call on (low, mid - 2).
RecNewHighSkips(mid) == WrappingSub(mid, 2)

\* `recursive_binary_search(list, item, low, mid - 1)`
RecNewHigh(mid) == WrappingSub(mid, 1)

\* `recursive_binary_search(list, item, mid + 1, high)`
RecNewLow(mid) == mid + 1

\* The base case returns None, and every caller of the chain returns that value.
RecBase ==
    /\ pc = "recursive_binary_search"
    /\ (RecMidPanics \/ RecBaseCase(list, RecMid))
    /\ r_res' = IF RecMidPanics THEN Panic ELSE None
    /\ pc' = "done"
    /\ UNCHANGED notSearchVars
    /\ UNCHANGED <<build, list, item, i, l_res, low, high, i_res, r_low, r_high, r_calls, reads>>

\* `if item == list[mid] { return Some(mid); }`
RecFound ==
    /\ pc = "recursive_binary_search"
    /\ ~RecMidPanics
    /\ ~RecBaseCase(list, RecMid)
    /\ item = At(list, RecMid)
    /\ r_res' = Some(RecMid)
    /\ reads' = reads + 1
    /\ pc' = "done"
    /\ UNCHANGED notSearchVars
    /\ UNCHANGED <<build, list, item, i, l_res, low, high, i_res, r_low, r_high, r_calls>>

\* `if item < list[mid]`: the call on (low, mid - 1).
RecLower ==
    /\ pc = "recursive_binary_search"
    /\ ~RecMidPanics
    /\ ~RecBaseCase(list, RecMid)
    /\ item < At(list, RecMid)
    /\ (build = "release" \/ ~SubOverflows(RecMid, 1))
    /\ Len(r_calls) < MaxDepth
    /\ r_high' = RecNewHigh(RecMid)
    /\ r_calls' = Append(r_calls, <<r_low, RecNewHigh(RecMid)>>)
    /\ reads' = reads + 1
    /\ UNCHANGED notSearchVars
    /\ UNCHANGED <<build, pc, list, item, i, l_res, low, high, i_res, r_low, r_res>>

\* The argument `mid - 1` with mid = 0 and overflow checks on panics.
RecLowerPanic ==
    /\ pc = "recursive_binary_search"
    /\ ~RecMidPanics
    /\ ~RecBaseCase(list, RecMid)
    /\ item < At(list, RecMid)
    /\ build = "debug"
    /\ SubOverflows(RecMid, 1)
    /\ r_res' = Panic
    /\ reads' = reads + 1
    /\ pc' = "done"
    /\ UNCHANGED notSearchVars
    /\ UNCHANGED <<build, list, item, i, l_res, low, high, i_res, r_low, r_high, r_calls>>

\* `else`: the call on (mid + 1, high).
RecUpper ==
    /\ pc = "recursive_binary_search"
    /\ ~RecMidPanics
    /\ ~RecBaseCase(list, RecMid)
    /\ item > At(list, RecMid)
    /\ Len(r_calls) < MaxDepth
    /\ r_low' = RecNewLow(RecMid)
    /\ r_calls' = Append(r_calls, <<RecNewLow(RecMid), r_high>>)
    /\ reads' = reads + 1
    /\ UNCHANGED notSearchVars
    /\ UNCHANGED <<build, pc, list, item, i, l_res, low, high, i_res, r_high, r_res>>

\* The calls that are not being made in a run.
IdleSearchCalls ==
    /\ pc = "idle"
    /\ list = <<>>
    /\ item = 0
    /\ i = 0
    /\ l_res = Pending
    /\ low = 0
    /\ high = 0
    /\ i_res = Pending
    /\ r_low = 0
    /\ r_high = 0
    /\ r_calls = <<>>
    /\ r_res = Pending
    /\ reads = 0

IdleSearch == build = "release" /\ IdleSearchCalls

IdleSel ==
    /\ sel_pc = "idle"
    /\ sel_input = <<>>
    /\ sel_list = <<>>
    /\ sel_i = 0
    /\ sel_j = 0
    /\ current_min = 0

IdleQuick ==
    /\ q_pc = "idle"
    /\ q_input = <<>>
    /\ q_list = <<>>
    /\ q_depth = 0
    /\ q_out = <<>>

IdleSorts == pass = 0

IdleAgg ==
    /\ a_fn = "idle"
    /\ a_list = <<>>
    /\ a_index = 0
    /\ a_res = Pending

IdleFact ==
    /\ f_pc = "idle"
    /\ f_input = 0
    /\ f_arg = 0
    /\ f_acc = <<>>
    /\ f_res = Pending

IdleCount ==
    /\ c_pc = "idle"
    /\ c_input = 0
    /\ c_arg = 0
    /\ c_calls = 0
    /\ c_res = 0

\* The state of the modules other than intro_to_algos, selection_sort and
\* quick_sort when none of their functions is called.
IdleRest == IdleSorts /\ IdleAgg /\ IdleFact /\ IdleCount

\* ------------------------------------------------- the search specification
\* One run: the three searches are called in turn on the same slice and target.
InitSearch ==
    /\ build \in {"debug", "release"}
    /\ pc = "linear_search"
    /\ list \in SeqsUpTo(Vals, MaxLen)
    /\ item \in Targets
    /\ i = 0
    /\ l_res = Pending
    /\ low = 0
    /\ high = Len(list)
    /\ i_res = Pending
    /\ r_low = 0
    /\ r_high = Len(list)
    /\ r_calls = << <<0, Len(list)>> >>
    /\ r_res = Pending
    /\ reads = 0
    /\ IdleSel
    /\ IdleQuick
    /\ IdleRest

NextSearch ==
    \/ LinearFound
    \/ LinearNext
    \/ LinearExhausted
    \/ IterExit
    \/ IterIndexPanic
    \/ IterFound
    \/ IterLower
    \/ IterLowerPanic
    \/ IterUpper
    \/ RecBase
    \/ RecFound
    \/ RecLower
    \/ RecLowerPanic
    \/ RecUpper

SpecSearch == InitSearch /\ [][NextSearch]_vars

\* ------------------------------------------------------ claims on the searches
Present(s, x) == x \in Range(s)

\* The smallest zero-based index of s that holds x.
FirstIndex(s, x) ==
    CHOOSE k \in 0..(Len(s) - 1) :
        At(s, k) = x /\ \A j \in 0..(k - 1) : At(s, j) # x

IterReturned == i_res # Pending
RecStarted == pc \in {"recursive_binary_search", "done"}

\* Some call of the chain has the (low, high) arguments of an earlier one.
RecRepeatsCall == \E a, b \in DOMAIN r_calls : a < b /\ r_calls[a] = r_calls[b]

\* C1: on a sorted slice that holds the target, iterative_binary_search returns
\* Some(i) with list[i] == item, never None and never a panic.
C1_IterFindsPresent ==
    (IsSorted(list) /\ Present(list, item) /\ IterReturned)
        => (i_res.tag = "Some" /\ At(list, i_res.idx) = item)

\* C2: on a sorted slice that holds the target, recursive_binary_search called
\* on (0, len) returns Some(i) with list[i] == item; the chain of calls that
\* leads there never repeats a call and stays short of MaxDepth.
C2_RecFindsPresent ==
    (IsSorted(list) /\ Present(list, item) /\ RecStarted)
        => /\ r_res # Pending => (r_res.tag = "Some" /\ At(list, r_res.idx) = item)
           /\ ~RecRepeatsCall
           /\ Len(r_calls) < MaxDepth

\* C2 witness: a present target found after at least two recursive calls.
C2_Witness ==
    /\ pc = "done"
    /\ IsSorted(list)
    /\ Present(list, item)
    /\ Len(list) >= 3
    /\ Len(r_calls) >= 3
    /\ r_res.tag = "Some"

\* C3: on a sorted slice the iterative and the recursive binary search end with
\* the same outcome, for a present and for an absent target.
C3_IterRecAgree ==
    (IsSorted(list) /\ pc = "done") => i_res = r_res

\* C4: on a sorted slice that does not hold the target, iterative_binary_search
\* returns None, never a panic.
C4_IterAbsentNone ==
    (IsSorted(list) /\ ~Present(list, item) /\ IterReturned) => i_res = None

\* C5: on a sorted slice that does not hold the target, recursive_binary_search
\* called on (0, len) returns None: it never panics, and its chain of calls
\* never comes back to a call it has already made.
C5_RecAbsentNone ==
    (IsSorted(list) /\ ~Present(list, item) /\ RecStarted)
        => /\ r_res \in {Pending, None}
           /\ ~RecRepeatsCall

\* C6: on a slice in any order linear_search returns Some of the smallest index
\* that holds the target when there is one, and None exactly when there is none.
C6_LinearFirstMatch ==
    l_res # Pending
        => l_res = (IF Present(list, item) THEN Some(FirstIndex(list, item)) ELSE None)

\* C6 witness: an unsorted slice holding the target twice, the first time past
\* index 0.
C6_Witness ==
    /\ l_res.tag = "Some"
    /\ l_res.idx >= 1
    /\ ~IsSorted(list)
    /\ Cardinality({k \in DOMAIN list : list[k] = item}) >= 2

\* C15: on the empty slice, whatever the target, linear_search,
\* iterative_binary_search and recursive_binary_search called on (0, 0) each
\* return None, and no element of the slice is ever indexed.
C15_EmptyReturnsNone ==
    list = <<>>
        => /\ reads = 0
           /\ l_res \in {Pending, None}
           /\ i_res \in {Pending, None}
           /\ r_res \in {Pending, None}
           /\ pc = "done" => (l_res = None /\ i_res = None /\ r_res = None)

\* C15 witness: the three searches have returned on the empty slice.
C15_Witness ==
    /\ list = <<>>
    /\ pc = "done"
    /\ r_calls = << <<0, 0>> >>
    /\ r_res = None

\* ---------------------------------------------------------- selection_sort
\* A slip in the scan's start: `(i + 2, i)`.
SelScanFromSkips(k) == k + 2

\* `let (mut j, mut current_min) = (i + 1, i);`: where the scan ahead starts.
SelScanFrom(k) == k + 1

\* A comparison slip: `list[j] > list[current_min]`.
SelNewMinGreater(s, j, m) == IF Less(At(s, m), At(s, j)) THEN j ELSE m

\* A comparison slip: `list[j] <= list[current_min]`.
SelNewMinLe(s, j, m) == IF ~Less(At(s, m), At(s, j)) THEN j ELSE m

\* `if list[j] < list[current_min] { current_min = j; }`
SelNewMin(s, j, m) == IF Less(At(s, j), At(s, m)) THEN j ELSE m

\* A slip in the exchange: position a is overwritten and position b is kept.
SwapOverwrites(s, a, b) == [s EXCEPT ![a + 1] = At(s, b)]

\* `list.swap(i, current_min)`
Swap(s, a, b) == [s EXCEPT ![a + 1] = At(s, b), ![b + 1] = At(s, a)]

\* `while i < len {`: an outer iteration starts.
SelOuterEnter ==
    /\ sel_pc = "outer"
    /\ sel_i < Len(sel_list)
    /\ sel_j' = SelScanFrom(sel_i)
    /\ current_min' = sel_i
    /\ sel_pc' = "inner"
    /\ UNCHANGED notSelVars
    /\ UNCHANGED <<sel_input, sel_list, sel_i>>

\* `while j < len {`: one step of the scan ahead.
SelInnerStep ==
    /\ sel_pc = "inner"
    /\ sel_j < Len(sel_list)
    /\ current_min' = SelNewMin(sel_list, sel_j, current_min)
    /\ sel_j' = sel_j + 1
    /\ UNCHANGED notSelVars
    /\ UNCHANGED <<sel_pc, sel_input, sel_list, sel_i>>

\* The scan is over: `list.swap(i, current_min); i = i + 1;`
SelSwap ==
    /\ sel_pc = "inner"
    /\ sel_j >= Len(sel_list)
    /\ sel_list' = Swap(sel_list, sel_i, current_min)
    /\ sel_i' = sel_i + 1
    /\ sel_pc' = "outer"
    /\ UNCHANGED notSelVars
    /\ UNCHANGED <<sel_input, sel_j, current_min>>

\* The outer guard fails: the slice is returned.
SelReturn ==
    /\ sel_pc = "outer"
    /\ sel_i >= Len(sel_list)
    /\ sel_pc' = "returned"
    /\ UNCHANGED notSelVars
    /\ UNCHANGED <<sel_input, sel_list, sel_i, sel_j, current_min>>

\* The integer inputs of the module's tests.
SelFixtures == {<<2, 1, 3, 0, 4>>, <<0, 1, 2, 3, 4>>, <<5, 3, 0, 2, 1, 3, 4, 5>>}

InitSelectionSort ==
    /\ sel_pc = "outer"
    /\ sel_input \in {Tagged(s) : s \in SeqsUpTo(Vals, MaxLen) \cup SelFixtures}
    /\ sel_list = sel_input
    /\ sel_i = 0
    /\ sel_j = 0
    /\ current_min = 0
    /\ IdleSearch
    /\ IdleQuick
    /\ IdleRest

NextSelectionSort ==
    \/ SelOuterEnter
    \/ SelInnerStep
    \/ SelSwap
    \/ SelReturn

SpecSelectionSort == InitSelectionSort /\ [][NextSelectionSort]_vars

\* ------------------------------------------------- claims on selection_sort
HasEqualKeys(s) == \E a, b \in DOMAIN s : a # b /\ s[a].key = s[b].key

\* C7: when selection_sort returns, every pair of positions i < j of the slice
\* satisfies list[i] <= list[j].
C7_SelSortOrdered ==
    sel_pc = "returned" => SortedByKey(sel_list)

\* C7 witness: the call has returned on an input that was out of order and held
\* equal keys.
C7_Witness ==
    /\ sel_pc = "returned"
    /\ Len(sel_input) >= 3
    /\ ~SortedByKey(sel_input)
    /\ HasEqualKeys(sel_input)

\* C8: at every point of selection_sort (hence after every outer iteration and
\* on return) the slice holds the same multiset of elements, and so the same
\* multiset of keys and the same length, as the input.
C8_SelSortPermutation ==
    sel_pc # "idle"
        => /\ SameBag(sel_list, sel_input)
           /\ SameBag(Keys(sel_list), Keys(sel_input))
           /\ Len(sel_list) = Len(sel_input)

\* C8 witness: between two outer iterations, after exchanges that moved
\* elements, on an input with equal keys.
C8_Witness ==
    /\ sel_pc = "outer"
    /\ sel_i >= 2
    /\ sel_i < Len(sel_list)
    /\ sel_list # sel_input
    /\ HasEqualKeys(sel_input)

\* C16 as stated: selection_sort applied to [5,3,0,2,1,3,4,5] returns
\* [0,1,1,2,3,3,4,5].
C16_FixtureAsStated ==
    (sel_pc = "returned" /\ Keys(sel_input) = <<5, 3, 0, 2, 1, 3, 4, 5>>)
        => Keys(sel_list) = <<0, 1, 1, 2, 3, 3, 4, 5>>

\* C16 as amended: selection_sort applied to [5,3,0,2,1,3,4,5] returns
\* [0,1,2,3,3,4,5,5].
C16_Fixture ==
    (sel_pc = "returned" /\ Keys(sel_input) = <<5, 3, 0, 2, 1, 3, 4, 5>>)
        => Keys(sel_list) = <<0, 1, 2, 3, 3, 4, 5, 5>>

\* C16 witness: selection_sort has returned on [5,3,0,2,1,3,4,5].
C16_Witness ==
    /\ sel_pc = "returned"
    /\ Keys(sel_input) = <<5, 3, 0, 2, 1, 3, 4, 5>>

\* --------------------------------------------------------------- quick_sort
\* A slip in the choice of the pivot: the last item.
PivotLast(s) == s[Len(s)]

\* `list.next()` takes the first item of the iterator as the pivot and leaves
\* the remaining items in the iterator.
Pivot(s) == Head(s)
Remaining(s) == Tail(s)

\* A slip in the closure: `n <= &pivot`.
ListOfNotGreater(rest, pivot) ==
    SelectSeq(rest, LAMBDA n : ~Less(pivot, n))

\* `list.partition(|n| n < &pivot)`: the items the closure accepts, in order.
ListOfSmaller(rest, pivot) ==
    SelectSeq(rest, LAMBDA n : Less(n, pivot))

\* A slip in the partition: only the items strictly greater than the pivot.
ListOfStrictlyGreater(rest, pivot) ==
    SelectSeq(rest, LAMBDA n : Less(pivot, n))

\* `list.partition(|n| n < &pivot)`: the items the closure rejects, in order.
ListOfGreater(rest, pivot) ==
    SelectSeq(rest, LAMBDA n : ~Less(n, pivot))

\* A slip in the chain: the pivot is put in front of both sorted halves.
PivotFirst(sorted_small, pivot, sorted_greater) ==
    <<pivot>> \o sorted_small \o sorted_greater

\* `sorted_small.into_iter().chain(once(pivot)).chain(sorted_greater.into_iter()).collect()`
Combine(sorted_small, pivot, sorted_greater) ==
    sorted_small \o <<pivot>> \o sorted_greater

RECURSIVE quick_sort(_)
quick_sort(s) ==
    IF s = <<>> THEN <<>>
    ELSE LET pivot == Pivot(s)
             list_of_smaller == ListOfSmaller(Remaining(s), pivot)
             list_of_greater == ListOfGreater(Remaining(s), pivot)
             sorted_small == quick_sort(list_of_smaller)
             sorted_greater == quick_sort(list_of_greater)
         IN  Combine(sorted_small, pivot, sorted_greater)

\* The call followed returns its Vec.
QuickSortReturn ==
    /\ q_pc = "called"
    /\ q_out' = quick_sort(q_list)
    /\ q_pc' = "returned"
    /\ UNCHANGED notQuickVars
    /\ UNCHANGED <<q_input, q_list, q_depth>>

\* `quick_sort(list_of_smaller.into_iter())`: the run follows the first nested call.
QuickSortSmaller ==
    /\ q_pc = "called"
    /\ q_list # <<>>
    /\ q_depth < MaxDepth
    /\ q_list' = ListOfSmaller(Remaining(q_list), Pivot(q_list))
    /\ q_depth' = q_depth + 1
    /\ UNCHANGED notQuickVars
    /\ UNCHANGED <<q_pc, q_input, q_out>>

\* `quick_sort(list_of_greater.into_iter())`: the run follows the second nested call.
QuickSortGreater ==
    /\ q_pc = "called"
    /\ q_list # <<>>
    /\ q_depth < MaxDepth
    /\ q_list' = ListOfGreater(Remaining(q_list), Pivot(q_list))
    /\ q_depth' = q_depth + 1
    /\ UNCHANGED notQuickVars
    /\ UNCHANGED <<q_pc, q_input, q_out>>

InitQuickSort ==
    /\ q_pc = "called"
    /\ q_input \in {Tagged(s) : s \in SeqsUpTo(Vals, MaxLen)}
    /\ q_list = q_input
    /\ q_depth = 0
    /\ q_out = <<>>
    /\ IdleSearch
    /\ IdleSel
    /\ IdleRest

NextQuickSort ==
    \/ QuickSortReturn
    \/ QuickSortSmaller
    \/ QuickSortGreater

SpecQuickSort == InitQuickSort /\ [][NextQuickSort]_vars

\* ----------------------------------------------------- claims on quick_sort
\* C9: the Vec returned by every call of quick_sort, outermost or nested,
\* satisfies output[i] <= output[j] for every pair of positions i < j.
C9_QuickSortOrdered ==
    q_pc = "returned" => SortedByKey(q_out)

\* C9 witness: the outermost call has returned on an input of at least three
\* elements that was out of order and held equal keys.
C9_Witness ==
    /\ q_pc = "returned"
    /\ q_depth = 0
    /\ Len(q_input) >= 3
    /\ ~SortedByKey(q_input)
    /\ HasEqualKeys(q_input)

\* C10: the Vec returned by every call of quick_sort has the length of the
\* call's argument and the same multiset of elements, hence of keys: every
\* duplicate and every pivot appears as many times as in the argument.
C10_QuickSortPermutation ==
    q_pc = "returned"
        => /\ Len(q_out) = Len(q_list)
           /\ SameBag(q_out, q_list)
           /\ SameBag(Keys(q_out), Keys(q_list))

\* C10 witness: the outermost call has returned on an input in which the key of
\* the first pivot occurs again, and which the sort had to reorder.
C10_Witness ==
    /\ q_pc = "returned"
    /\ q_depth = 0
    /\ Len(q_input) >= 3
    /\ \E k \in 2..Len(q_input) : q_input[k].key = q_input[1].key
    /\ q_out # q_input

\* ------------------------------------------------------------ sorting twice
\* Both sorts are called on the same input (pass 1); when both have returned
\* each is called again on what it returned (pass 2).  q_input keeps the input
\* of pass 1.
SortAgain ==
    /\ pass = 1
    /\ sel_pc = "returned"
    /\ q_pc = "returned"
    /\ pass' = 2
    /\ sel_input' = sel_list
    /\ sel_i' = 0
    /\ sel_j' = 0
    /\ current_min' = 0
    /\ sel_pc' = "outer"
    /\ q_list' = q_out
    /\ q_out' = <<>>
    /\ q_pc' = "called"
    /\ UNCHANGED notSortVars
    /\ UNCHANGED <<sel_list, q_input, q_depth>>

InitSorts ==
    /\ pass = 1
    /\ sel_pc = "outer"
    /\ sel_input \in {Tagged(s) : s \in SeqsUpTo(Vals, MaxLen)}
    /\ sel_list = sel_input
    /\ sel_i = 0
    /\ sel_j = 0
    /\ current_min = 0
    /\ q_pc = "called"
    /\ q_input = sel_input
    /\ q_list = sel_input
    /\ q_depth = 0
    /\ q_out = <<>>
    /\ IdleSearch
    /\ IdleAgg
    /\ IdleFact
    /\ IdleCount

NextSorts ==
    \/ SelOuterEnter
    \/ SelInnerStep
    \/ SelSwap
    \/ SelReturn
    \/ QuickSortReturn
    \/ SortAgain

SpecSorts == InitSorts /\ [][NextSorts]_vars

\* C11: selection_sort returns a slice equal to its input when the input is
\* ascending, and so does quick_sort (the empty and the one-element sequence
\* included); the input of the second pass, which is the output of the first,
\* is ascending, so sorting it again returns it unchanged.
C11_SortIdempotent ==
    /\ (sel_pc = "returned" /\ SortedByKey(sel_input)) => sel_list = sel_input
    /\ (q_pc = "returned" /\ SortedByKey(q_list)) => q_out = q_list
    /\ pass = 2 => (SortedByKey(sel_input) /\ SortedByKey(q_list))

\* C11 witness: both sorts have returned from the second pass, over an input
\* that was out of order and held equal keys.
C11_Witness ==
    /\ pass = 2
    /\ sel_pc = "returned"
    /\ q_pc = "returned"
    /\ Len(q_input) >= 3
    /\ ~SortedByKey(q_input)
    /\ HasEqualKeys(q_input)

\* ---------------------------------------------------------- u64 arithmetic
\* A u64 is four 16-bit limbs.  Numbers are kept as sequences of limbs, least
\* significant first and without leading zero limbs (zero is <<>>), so that a
\* result that needs a fifth limb is a result that does not fit a u64.
LimbBase == 65536
U64Limbs == 4

\* The number n, for 0 <= n < LimbBase.
Big(n) == IF n = 0 THEN <<>> ELSE <<n>>

LimbOr0(a) == IF a = <<>> THEN 0 ELSE Head(a)
RestOf(a) == IF a = <<>> THEN <<>> ELSE Tail(a)

RECURSIVE BigAddCarry(_, _, _)
BigAddCarry(a, b, c) ==
    IF a = <<>> /\ b = <<>>
    THEN Big(c)
    ELSE LET x == LimbOr0(a) + LimbOr0(b) + c
         IN  <<x % LimbBase>> \o BigAddCarry(RestOf(a), RestOf(b), x \div LimbBase)

\* a + b, exact.
BigAdd(a, b) == BigAddCarry(a, b, 0)

\* a * k + c, exact, for 1 <= k < LimbBase and 0 <= c < LimbBase.
RECURSIVE BigMulSmall(_, _, _)
BigMulSmall(a, k, c) ==
    IF a = <<>>
    THEN Big(c)
    ELSE LET x == Head(a) * k + c
         IN  <<x % LimbBase>> \o BigMulSmall(Tail(a), k, x \div LimbBase)

RECURSIVE StripZeros(_)
StripZeros(a) ==
    IF a # <<>> /\ a[Len(a)] = 0 THEN StripZeros(SubSeq(a, 1, Len(a) - 1)) ELSE a

FitsU64(a) == Len(a) <= U64Limbs

\* a modulo 2^64.
WrapU64(a) == IF FitsU64(a) THEN a ELSE StripZeros(SubSeq(a, 1, U64Limbs))

\* u64::MAX
U64Max == [k \in 1..U64Limbs |-> LimbBase - 1]

\* The value a call returned.
Ok(v) == [tag |-> "Ok", val |-> v]

\* The u64 result of an exact value: with overflow checks on (debug builds) a
\* value that does not fit panics, without them (release builds) it wraps.
U64Result(exact, b) ==
    IF FitsU64(exact) THEN Ok(exact)
    ELSE IF b = "debug" THEN Panic
    ELSE Ok(WrapU64(exact))

\* ------------------------------------------------ sum, count, find_max
\* Longest slice passed to sum, count and find_max.
AggMaxLen == 3
\* sum is called on the values 0..AggMaxVal, u64::MAX - 1 and u64::MAX;
\* count and find_max on the values -AggMaxVal..AggMaxVal.
AggMaxVal == 2

SumVals ==
    {Big(n) : n \in 0..AggMaxVal}
        \cup {U64Max, [U64Max EXCEPT ![1] = LimbBase - 2]}
MaxVals == (0 - AggMaxVal)..AggMaxVal

\* A slip in the base case: `true => 1`.
SumBaseOne == Ok(Big(1))

\* sum: `true => 0`
SumBase == Ok(Big(0))

\* sum: `list[0] + sum(&list[1..])`, given what the nested call returned.
SumStep(first, rest, b) ==
    IF rest.tag = "Panic" THEN Panic ELSE U64Result(BigAdd(first, rest.val), b)

RECURSIVE sum(_, _)
sum(s, b) ==
    IF s = <<>> THEN SumBase ELSE SumStep(Head(s), sum(Tail(s), b), b)

\* `v.iter().sum()`: the reduction from the left, starting at 0.
RECURSIVE IterSumFrom(_, _, _)
IterSumFrom(acc, s, b) ==
    IF acc.tag = "Panic" \/ s = <<>> THEN acc
    ELSE IterSumFrom(U64Result(BigAdd(acc.val, Head(s)), b), Tail(s), b)

IterSum(s, b) == IterSumFrom(Ok(Big(0)), s, b)

\* A slip in the base case: `true => 1`.
CountBaseOne == Ok(Big(1))

\* count: `true => 0`
CountBase == Ok(Big(0))

\* count: `1 + count(&list[1..])`, given what the nested call returned.
CountStep(rest, b) ==
    IF rest.tag = "Panic" THEN Panic ELSE U64Result(BigAdd(Big(1), rest.val), b)

RECURSIVE count(_, _)
count(s, b) ==
    IF s = <<>> THEN CountBase ELSE CountStep(count(Tail(s), b), b)

\* Option<&T>
SomeOf(v) == [tag |-> "Some", val |-> v]

\* A slip: `min` where `max` was meant.
MinOf(a, b) == IF b < a THEN b ELSE a

\* `std::cmp::max(a, b)`: b unless a is greater.
MaxOf(a, b) == IF a > b THEN a ELSE b

\* `index.checked_sub(1).unwrap_or(list.len() - 1)`, for a non-empty list.
NextIndex(index, len) == IF index >= 1 THEN index - 1 ELSE len - 1

\* `_find_max(list, index)`
RECURSIVE _find_max(_, _)
_find_max(s, index) ==
    IF s = <<>> THEN None
    ELSE LET rest == _find_max(Tail(s), NextIndex(index, Len(s)))
         IN  SomeOf(MaxOf(Head(s), IF rest.tag = "None" THEN Head(s) ELSE rest.val))

\* `let index = list.len().checked_sub(1).unwrap_or(0);`
FindMaxIndex(s) == IF Len(s) >= 1 THEN Len(s) - 1 ELSE 0

\* `find_max(list)`
find_max(s) == _find_max(s, FindMaxIndex(s))

AggSum ==
    /\ a_fn = "sum"
    /\ a_res = Pending
    /\ a_res' = sum(a_list, build)
    /\ UNCHANGED notAggVars
    /\ UNCHANGED <<a_fn, a_list, a_index>>

AggCount ==
    /\ a_fn = "count"
    /\ a_res = Pending
    /\ a_res' = count(a_list, build)
    /\ UNCHANGED notAggVars
    /\ UNCHANGED <<a_fn, a_list, a_index>>

\* A call through the wrapper.
AggFindMax ==
    /\ a_fn = "find_max"
    /\ a_res = Pending
    /\ a_index' = FindMaxIndex(a_list)
    /\ a_res' = find_max(a_list)
    /\ UNCHANGED notAggVars
    /\ UNCHANGED <<a_fn, a_list>>

\* A call of the public _find_max with an index of the caller's choice.
AggFindMaxAt ==
    /\ a_fn = "_find_max"
    /\ a_res = Pending
    /\ \E index \in 0..(AggMaxLen + 1) :
        /\ a_index' = index
        /\ a_res' = _find_max(a_list, index)
    /\ UNCHANGED notAggVars
    /\ UNCHANGED <<a_fn, a_list>>

InitAgg ==
    /\ build \in {"debug", "release"}
    /\ a_fn \in {"sum", "count", "find_max", "_find_max"}
    /\ a_list \in SeqsUpTo(IF a_fn = "sum" THEN SumVals ELSE MaxVals, AggMaxLen)
    /\ a_index = 0
    /\ a_res = Pending
    /\ IdleSearchCalls
    /\ IdleSel
    /\ IdleQuick
    /\ IdleSorts
    /\ IdleFact
    /\ IdleCount

NextAgg ==
    \/ AggSum
    \/ AggCount
    \/ AggFindMax
    \/ AggFindMaxAt

SpecAgg == InitAgg /\ [][NextAgg]_vars

\* C12: sum(list) is the reduction of the slice from the left starting at 0,
\* with the same outcome when the total does not fit a u64 (a panic with
\* overflow checks on, the total modulo 2^64 without); sum of the empty slice
\* is 0.
C12_SumIsReduction ==
    (a_fn = "sum" /\ a_res # Pending)
        => /\ a_res = IterSum(a_list, build)
           /\ a_list = <<>> => a_res = Ok(Big(0))

\* C12 witness: sum has returned a value for a slice of three non-zero values.
C12_Witness ==
    /\ a_fn = "sum"
    /\ a_res.tag = "Ok"
    /\ Len(a_list) >= 3
    /\ \A k \in DOMAIN a_list : a_list[k] # Big(0)

\* C13: count(list) is the length of the slice; count of the empty slice is 0.
C13_CountIsLen ==
    (a_fn = "count" /\ a_res # Pending) => a_res = Ok(Big(Len(a_list)))

\* C13 witness: count has returned for a slice of three elements.
C13_Witness ==
    /\ a_fn = "count"
    /\ a_res.tag = "Ok"
    /\ Len(a_list) >= 3

\* The greatest element of a non-empty sequence.
Greatest(s) == CHOOSE m \in Range(s) : \A x \in Range(s) : x <= m

\* C14: find_max of a non-empty slice is Some of its greatest element,
\* find_max of the empty slice is None, and _find_max returns that same value
\* whatever index it is given.
C14_FindMaxGreatest ==
    (a_fn \in {"find_max", "_find_max"} /\ a_res # Pending)
        => /\ a_res = (IF a_list = <<>> THEN None ELSE SomeOf(Greatest(a_list)))
           /\ a_res = find_max(a_list)

\* C14 witness: _find_max has returned the greatest element, which is neither
\* first nor last, of a slice with a negative value and a repeated value, for
\* an index that is not the one the wrapper passes.
C14_Witness ==
    /\ a_fn = "_find_max"
    /\ a_res.tag = "Some"
    /\ Len(a_list) >= 3
    /\ a_index # FindMaxIndex(a_list)
    /\ a_res.val > a_list[1]
    /\ a_res.val > a_list[Len(a_list)]
    /\ \E k \in DOMAIN a_list : a_list[k] < 0
    /\ a_list[1] = a_list[Len(a_list)]

\* ---------------------------------------------------------------- factorial
\* Largest argument factorial is called on.
MaxFactArg == 23

\* A slip in the base case: `1 => 1`.
FactIsBaseOne(k) == k = 1

\* `match i { 0 => ..`
FactIsBase(k) == k = 0

\* A slip in the base case: `0 => 0`.
FactBaseZero == Big(0)

\* `0 => 1`
FactBaseValue == Big(1)

\* `factorial(i - 1) * i`, exact, given what the nested call returned.
FactProduct(inner, k) == BigMulSmall(inner, k, 0)

\* `_ => factorial(i - 1)`: the nested call is made.
FactCall ==
    /\ f_pc = "calling"
    /\ ~FactIsBase(f_arg)
    /\ f_arg' = f_arg - 1
    /\ UNCHANGED notFactVars
    /\ UNCHANGED <<f_pc, f_input, f_acc, f_res>>

\* `0 => 1`: the innermost call returns, to its caller (whose i is 1) if it
\* has one.
FactBase ==
    /\ f_pc = "calling"
    /\ FactIsBase(f_arg)
    /\ f_acc' = FactBaseValue
    /\ IF f_input = f_arg
       THEN f_pc' = "returned" /\ f_res' = Ok(FactBaseValue) /\ f_arg' = f_arg
       ELSE f_pc' = "returning" /\ f_res' = f_res /\ f_arg' = f_arg + 1
    /\ UNCHANGED notFactVars
    /\ UNCHANGED f_input

\* `factorial(i - 1) * i` in the call whose i is f_arg: the product fits, or
\* wraps without overflow checks; the call returns it.
FactMultiply ==
    /\ f_pc = "returning"
    /\ (FitsU64(FactProduct(f_acc, f_arg)) \/ build = "release")
    /\ f_acc' = WrapU64(FactProduct(f_acc, f_arg))
    /\ IF f_arg = f_input
       THEN f_pc' = "returned" /\ f_res' = Ok(f_acc') /\ f_arg' = f_arg
       ELSE f_pc' = "returning" /\ f_res' = f_res /\ f_arg' = f_arg + 1
    /\ UNCHANGED notFactVars
    /\ UNCHANGED f_input

\* The product does not fit and overflow checks are on: "attempt to multiply
\* with overflow".
FactMultiplyPanic ==
    /\ f_pc = "returning"
    /\ ~FitsU64(FactProduct(f_acc, f_arg))
    /\ build = "debug"
    /\ f_pc' = "panicked"
    /\ f_res' = Panic
    /\ UNCHANGED notFactVars
    /\ UNCHANGED <<f_input, f_arg, f_acc>>

InitFactorial ==
    /\ build \in {"debug", "release"}
    /\ f_pc = "calling"
    /\ f_input \in 0..MaxFactArg
    /\ f_arg = f_input
    /\ f_acc = <<>>
    /\ f_res = Pending
    /\ IdleSearchCalls
    /\ IdleSel
    /\ IdleQuick
    /\ IdleSorts
    /\ IdleAgg
    /\ IdleCount

NextFactorial ==
    \/ FactCall
    \/ FactBase
    \/ FactMultiply
    \/ FactMultiplyPanic

SpecFactorial == InitFactorial /\ [][NextFactorial]_vars

\* ------------------------------------------------------ claims on factorial
\* 1 * 2 * ... * n, exact.
RECURSIVE Product(_)
Product(n) == IF n = 0 THEN Big(1) ELSE BigMulSmall(Product(n - 1), n, 0)

\* Quotient and remainder of a by d, for 1 <= d < LimbBase; the limbs of a
\* are taken from the most significant (k = Len(a)) down.
RECURSIVE DivStep(_, _, _, _, _)
DivStep(a, d, k, r, q) ==
    IF k = 0 THEN [quot |-> StripZeros(q), rem |-> r]
    ELSE LET cur == r * LimbBase + a[k]
         IN  DivStep(a, d, k - 1, cur % d, <<cur \div d>> \o q)

\* The decimal digits of a, most significant first.
RECURSIVE Decimal(_)
Decimal(a) ==
    IF a = <<>> THEN <<>>
    ELSE LET qr == DivStep(a, 10, Len(a), 0, <<>>)
         IN  Decimal(qr.quot) \o <<qr.rem>>

\* The greatest argument of the module's tests (finds_factorial_for_max_input).
FactMaxInput == 20

\* 2432902008176640000, the value the test expects of factorial(20).
FactOfMaxInput == <<2, 4, 3, 2, 9, 0, 2, 0, 0, 8, 1, 7, 6, 6, 4, 0, 0, 0, 0>>

FactEnded == f_pc \in {"returned", "panicked"}

\* C17 as stated: factorial(i) ends with the product 1 * 2 * ... * i for every
\* unsigned i.
C17_ProductForEveryInput ==
    FactEnded => f_res = Ok(Product(f_input))

\* C17 as amended: the chain of calls runs from i down to 0 and back; for
\* i <= 20 no multiplication overflows and factorial(i) is the product
\* 1 * 2 * ... * i, with factorial(20) = 2432902008176640000; for i >= 21 the
\* product does not fit a u64 and the call ends in a panic (overflow checks on)
\* or with a value that is not the product (overflow checks off).
C17_ProductUpToMaxInput ==
    /\ f_pc = "calling" => (0 <= f_arg /\ f_arg <= f_input)
    /\ f_pc = "returning" => (1 <= f_arg /\ f_arg <= f_input)
    /\ (f_pc = "returning" /\ f_arg <= FactMaxInput)
        => /\ f_acc = Product(f_arg - 1)
           /\ FitsU64(FactProduct(f_acc, f_arg))
    /\ (FactEnded /\ f_input <= FactMaxInput) => f_res = Ok(Product(f_input))
    /\ (FactEnded /\ f_input = FactMaxInput) => Decimal(f_res.val) = FactOfMaxInput
    /\ (FactEnded /\ f_input > FactMaxInput)
        => /\ ~FitsU64(Product(f_input))
           /\ build = "debug" => f_res = Panic
           /\ build = "release" => (f_res.tag = "Ok" /\ f_res.val # Product(f_input))

\* C17 witness: factorial(20) has returned.
C17_Witness ==
    /\ f_pc = "returned"
    /\ f_input = FactMaxInput
    /\ f_res.tag = "Ok"

MaxCountdown == 12

CountdownIsBaseLt(k) == k < 0

\* if i <= 0 { return i; }
CountdownIsBase(k) == k <= 0

\* simple_recursive_countdown(i - 1): the frame calls itself on i - 1.
CountdownRecurse ==
    /\ c_pc = "calling"
    /\ ~CountdownIsBase(c_arg)
    /\ c_arg' = c_arg - 1
    /\ c_calls' = c_calls + 1
    /\ UNCHANGED <<c_pc, c_input, c_res>>
    /\ UNCHANGED notCountVars

\* return i: the innermost frame returns its own argument; it is the
\* outermost frame when no recursive call was made.
CountdownBase ==
    /\ c_pc = "calling"
    /\ CountdownIsBase(c_arg)
    /\ c_res' = c_arg
    /\ c_pc' = IF c_arg = c_input THEN "returned" ELSE "returning"
    /\ c_arg' = IF c_arg = c_input THEN c_arg ELSE c_arg + 1
    /\ UNCHANGED <<c_input, c_calls>>
    /\ UNCHANGED notCountVars

\* The recursive call is the frame's last expression: the frame returns the
\* value of the nested call as it is.
CountdownPassUp ==
    /\ c_pc = "returning"
    /\ c_pc' = IF c_arg = c_input THEN "returned" ELSE "returning"
    /\ c_arg' = IF c_arg = c_input THEN c_arg ELSE c_arg + 1
    /\ UNCHANGED <<c_input, c_calls, c_res>>
    /\ UNCHANGED notCountVars

InitCountdown ==
    /\ c_pc = "calling"
    /\ c_input \in (0 - MaxCountdown)..MaxCountdown
    /\ c_arg = c_input
    /\ c_calls = 0
    /\ c_res = 0
    /\ IdleSearch
    /\ IdleSel
    /\ IdleQuick
    /\ IdleSorts
    /\ IdleAgg
    /\ IdleFact

NextCountdown ==
    \/ CountdownRecurse
    \/ CountdownBase
    \/ CountdownPassUp

SpecCountdown == InitCountdown /\ [][NextCountdown]_vars

\* The number of recursive calls a call on k makes: k for k > 0, none otherwise.
CountdownDepth(k) == IF k > 0 THEN k ELSE 0

\* C19: simple_recursive_countdown(i) terminates for every i: the n-th
\* recursive call has the argument i - n, so each call decreases the argument
\* by 1, and never more than i calls are made (none for i <= 0); for i > 0 the
\* call returns 0 after exactly i recursive calls, for i <= 0 it returns i
\* without recursing.
C19_CountdownTerminates ==
    /\ c_pc = "calling"
        => /\ c_arg = c_input - c_calls
           /\ c_calls <= CountdownDepth(c_input)
    /\ c_pc = "returning"
        => /\ c_calls = CountdownDepth(c_input)
           /\ c_input - c_calls < c_arg
           /\ c_arg <= c_input
    /\ (c_pc = "returned" /\ c_input > 0) => (c_res = 0 /\ c_calls = c_input)
    /\ (c_pc = "returned" /\ c_input <= 0) => (c_res = c_input /\ c_calls = 0)

\* C19 witness: a call on a positive argument has returned after its nested
\* calls.
C19_Witness ==
    /\ c_pc = "returned"
    /\ c_input = 10
    /\ c_calls = 10
    /\ c_res = 0

\* C20: in iterative_binary_search the bounds stay a half-open window of the
\* slice: in every loop state 0 <= low <= high <= len(S), and the call never
\* ends in the panic of subtracting 1 from mid = 0.
C20_WindowStaysHalfOpen ==
    /\ pc = "iterative_binary_search"
        => (0 <= low /\ low <= high /\ high <= Len(list))
    /\ i_res # Panic

\* ------------------------------------ the loop and the chain of the searches
\* The zero-based indices of s that hold x.
IndicesOf(s, x) == {k \in 0..(Len(s) - 1) : At(s, k) = x}

InIterLoop == pc = "iterative_binary_search"

\* C21: at the start of every iteration of iterative_binary_search on a sorted
\* slice, every index that holds the target lies in low..high-1, and the loop
\* exits with None only when the target does not occur in the slice.
C21_WindowKeepsTarget ==
    IsSorted(list)
        => /\ InIterLoop => \A k \in IndicesOf(list, item) : low <= k /\ k < high
           /\ i_res = None => ~Present(list, item)

\* C22: iterative_binary_search terminates on every sorted slice: an iteration
\* either returns Some or None, or it leaves the loop running with high - low
\* strictly smaller than before; it never ends in a panic.
C22_IterationShrinksWindow ==
    [][(InIterLoop /\ IsSorted(list))
        => \/ i_res'.tag \in {"Some", "None"}
           \/ (InIterLoop' /\ high' - low' < high - low)]_vars

\* floor(log2(n)) for n >= 1.
RECURSIVE FloorLog2(_)
FloorLog2(n) == IF n <= 1 THEN 0 ELSE 1 + FloorLog2(n \div 2)

\* C23: recursive_binary_search called on (0, len) of a sorted slice
\* terminates: its chain of calls ends in a call that returns Some or None, no
\* call has the (low, high) of an earlier call of the chain, and the chain is
\* at most floor(log2(len)) + 2 calls deep.
C23_RecChainEnds ==
    (IsSorted(list) /\ RecStarted)
        => /\ ~RecRepeatsCall
           /\ r_res.tag \in {"Pending", "Some", "None"}
           /\ list # <<>> => Len(r_calls) <= FloorLog2(Len(list)) + 2

\* The call in progress is about to evaluate `mid - 1`.
RecTakesLower ==
    /\ pc = "recursive_binary_search"
    /\ ~RecMidPanics
    /\ ~RecBaseCase(list, RecMid)
    /\ item < At(list, RecMid)

\* C24: in every call of the chain that recursive_binary_search makes from
\* (0, len) on a sorted slice, `mid - 1` is evaluated only when mid >= 1.
C24_NoUnderflow ==
    (IsSorted(list) /\ RecTakesLower) => RecMid >= 1

\* ------------------------------------------- the outer loop of selection_sort
\* The first k positions of s are in ascending order of key.
PrefixSorted(s, k) == \A a, b \in 1..k : a < b => ~Less(s[b], s[a])

\* No element at a position >= k is smaller than an element at a position < k.
PrefixBelowRest(s, k) ==
    \A a \in 1..k : \A b \in (k + 1)..Len(s) : ~Less(s[b], s[a])

\* C25, the state part: after k = i outer iterations (between two iterations,
\* during the scan of the next one, and on return) positions 0..k-1 hold the k
\* smallest elements of the input in ascending order: the slice is a
\* permutation of the input, its first k positions ascend, and no later
\* element is smaller than one of them.
C25_AfterOuterIterations ==
    sel_pc # "idle"
        => /\ sel_i <= Len(sel_list)
           /\ SameBag(sel_list, sel_input)
           /\ PrefixSorted(sel_list, sel_i)
           /\ PrefixBelowRest(sel_list, sel_i)

\* C25, the step part: no step of iteration k changes positions 0..k-1.
C25_PrefixKept ==
    sel_pc # "idle"
        => /\ Len(sel_list') = Len(sel_list)
           /\ \A p \in 1..sel_i : sel_list'[p] = sel_list[p]

\* C25: the invariant of selection_sort's outer loop.
C25_OuterLoopInvariant ==
    []C25_AfterOuterIterations /\ [][C25_PrefixKept]_vars

\* C25 witness: two outer iterations are done, the rest of the slice is still
\* out of order, and the exchanges moved elements.
C25_Witness ==
    /\ sel_pc = "outer"
    /\ sel_i = 2
    /\ Len(sel_list) >= 4
    /\ sel_list # sel_input
    /\ ~SortedByKey(sel_list)

\* Two elements of equal key stand in s in the opposite order of their input
\* positions.
Unstable(s) ==
    \E a, b \in DOMAIN s : a < b /\ s[a].key = s[b].key /\ s[a].pos > s[b].pos

\* C26: selection_sort is not stable: on the keys [2, 2, 1] the exchange of
\* position 0 with the position of the minimum carries the first 2 behind the
\* second, no exchange before that one has happened, and the slice returned
\* holds the two equal elements in the opposite order of the input.
C26_NotStable ==
    Keys(sel_input) = <<2, 2, 1>>
        => /\ sel_i = 0 => ~Unstable(sel_list)
           /\ sel_i >= 1 => Unstable(sel_list)
           /\ sel_pc = "returned" => sel_list = <<sel_input[3], sel_input[2], sel_input[1]>>

\* C26 witness: selection_sort has returned on the keys [2, 2, 1] with the two
\* equal elements exchanged.
C26_Witness ==
    /\ sel_pc = "returned"
    /\ Keys(sel_input) = <<2, 2, 1>>
    /\ Unstable(sel_list)

\* ------------------------------------------------ the levels of quick_sort
\* The items after the first whose key is below the first item's key, and the
\* other items after the first, each in the order of s.
LeftOf(s) == SelectSeq(Tail(s), LAMBDA n : n.key < Head(s).key)
RightOf(s) == SelectSeq(Tail(s), LAMBDA n : n.key >= Head(s).key)

\* The elements of s stand in the order they had in the input of the
\* outermost call.
InInputOrder(s) == \A a, b \in DOMAIN s : a < b => s[a].pos < s[b].pos

\* C27, the state part: the argument of every call, outermost or nested, keeps
\* the relative order of the input; a call on a non-empty sequence returns
\* quick_sort(left) ++ [pivot] ++ quick_sort(right), where the pivot is the
\* first element, left holds the remaining elements strictly below it and
\* right all the others, so every duplicate of the pivot comes after it.
C27_ResultOfLevel ==
    /\ q_pc # "idle" => InInputOrder(q_list)
    /\ (q_pc = "returned" /\ q_list # <<>>)
        => /\ q_out = quick_sort(LeftOf(q_list)) \o <<Head(q_list)>> \o quick_sort(RightOf(q_list))
           /\ Len(q_out) = Len(q_list)
           /\ q_out[Len(LeftOf(q_list)) + 1] = Head(q_list)
           /\ \A k \in 1..Len(LeftOf(q_list)) : q_out[k].key < Head(q_list).key
           /\ \A k \in (Len(LeftOf(q_list)) + 2)..Len(q_out) : q_out[k].key >= Head(q_list).key

\* C27, the step part: a nested call receives the left group or the right
\* group of its caller's argument.
C27_GroupsOfLevel ==
    q_depth' = q_depth + 1 => q_list' \in {LeftOf(q_list), RightOf(q_list)}

\* C27: the partition rule of quick_sort holds at every recursion level.
C27_PartitionRule ==
    []C27_ResultOfLevel /\ [][C27_GroupsOfLevel]_vars

\* C27 witness: a nested call has returned on an argument that holds the key of
\* its pivot again, together with a smaller key.
C27_Witness ==
    /\ q_pc = "returned"
    /\ q_depth >= 1
    /\ Len(q_list) >= 3
    /\ LeftOf(q_list) # <<>>
    /\ \E k \in DOMAIN RightOf(q_list) : RightOf(q_list)[k].key = Head(q_list).key

\* The keys of s ascend strictly, or descend strictly.
StrictlyAscending(s) == \A a, b \in DOMAIN s : a < b => s[a].key < s[b].key
StrictlyDescending(s) == \A a, b \in DOMAIN s : a < b => s[a].key > s[b].key

\* The groups the call followed hands to its two nested calls.
SmallerGroup == ListOfSmaller(Remaining(q_list), Pivot(q_list))
GreaterGroup == ListOfGreater(Remaining(q_list), Pivot(q_list))

\* A call on a non-empty argument nested in q_depth calls (all of them on
\* non-empty arguments) ends a chain of q_depth + 1 nested non-empty calls.
NonEmptyDepth == q_depth + 1

\* C28: for every input of length n the chain of nested non-empty calls is at
\* most n deep; on a strictly ascending or strictly descending input every
\* level has one empty group and one group with all the remaining elements, so
\* the non-empty call at depth d holds n - d + 1 elements and the chain goes on
\* to depth exactly n.
C28_WorstCaseDepth ==
    (q_pc # "idle" /\ q_list # <<>>)
        => /\ NonEmptyDepth <= Len(q_input)
           /\ NonEmptyDepth + Len(q_list) <= Len(q_input) + 1
           /\ StrictlyAscending(q_input)
               => /\ SmallerGroup = <<>>
                  /\ GreaterGroup = Remaining(q_list)
                  /\ Len(q_list) = Len(q_input) - NonEmptyDepth + 1
           /\ StrictlyDescending(q_input)
               => /\ GreaterGroup = <<>>
                  /\ SmallerGroup = Remaining(q_list)
                  /\ Len(q_list) = Len(q_input) - NonEmptyDepth + 1

\* C28 witness: on a strictly descending input of three elements the chain of
\* non-empty calls has reached depth three.
C28_Witness ==
    /\ q_pc = "called"
    /\ Len(q_input) = 3
    /\ StrictlyDescending(q_input)
    /\ q_list # <<>>
    /\ NonEmptyDepth = 3

\* C29, the state part: the two groups of a call on a non-empty sequence hold
\* together one element less than the sequence, so each is strictly shorter;
\* the call on the empty sequence returns the empty sequence; the nesting is
\* never deeper than the input is long.
C29_GroupsShorter ==
    /\ (q_pc # "idle" /\ q_list # <<>>)
        => /\ Len(SmallerGroup) + Len(GreaterGroup) = Len(q_list) - 1
           /\ Len(SmallerGroup) < Len(q_list)
           /\ Len(GreaterGroup) < Len(q_list)
    /\ (q_pc = "returned" /\ q_list = <<>>) => q_out = <<>>
    /\ q_pc # "idle" => q_depth + Len(q_list) <= Len(q_input)

\* C29, the step part: a nested call is made only by a call on a non-empty
\* sequence, and its argument is strictly shorter than its caller's.
C29_CallsShrink ==
    q_depth' # q_depth
        => /\ q_list # <<>>
           /\ q_depth' = q_depth + 1
           /\ Len(q_list') < Len(q_list)

\* C29: quick_sort terminates on every finite input.
C29_QuickSortTerminates ==
    []C29_GroupsShorter /\ [][C29_CallsShrink]_vars

\* C29 witness: a nested call on the empty sequence has returned the empty
\* sequence, at the bottom of a chain of three non-empty calls.
C29_Witness ==
    /\ q_pc = "returned"
    /\ q_list = <<>>
    /\ q_out = <<>>
    /\ q_depth = 3

\* C30: on every input selection_sort and quick_sort return sequences with the
\* same key at every position; this holds for the input of the first pass and
\* for the already sorted input of the second.
C30_SortsAgreeOnKeys ==
    (sel_pc = "returned" /\ q_pc = "returned")
        => /\ Len(sel_list) = Len(q_out)
           /\ \A k \in DOMAIN q_out : sel_list[k].key = q_out[k].key

\* C30 witness: both sorts have returned on an unsorted input with equal keys,
\* with the same keys at every position although the equal-keyed elements
\* stand in different orders.
C30_Witness ==
    /\ pass = 1
    /\ sel_pc = "returned"
    /\ q_pc = "returned"
    /\ Len(q_input) >= 3
    /\ ~SortedByKey(q_input)
    /\ sel_list # q_out

====
